---------------------------- MODULE Spec2Model ----------------------------
(***************************************************************************)
(* Model of the Climb movement-state handler (ClimbHandler::handle,        *)
(* common/src/comp/states/climb.rs) and of the system registration         *)
(* (add_local_systems, common/src/sys/mod.rs).                             *)
(*                                                                         *)
(* f32 values are modelled in fixed point: an integer n stands for         *)
(* n / SCALE (hundredths).  Squared magnitudes are therefore in units of   *)
(* 1 / SCALE^2, so 0.0001 is 1 and 0.001 is 10.  Vectors are tuples        *)
(* <<x, y, z>> (Vec3) and <<x, y>> (Vec2).                                 *)
(***************************************************************************)
EXTENDS Integers, Sequences, FiniteSets, TLC

VARIABLES
    pos,        \* Pos component of the entity
    vel,        \* Vel component of the entity
    ori,        \* Ori component of the entity
    character,  \* CharacterState component: [move_state, action_state]
    inputs,     \* ControllerInputs component: move_dir and the buttons
    ecs_data,   \* the ECSStateData of the last call of handle, or NoCall
    delta_time, \* DeltaTime resource: the elapsed time of a tick
    ticks,      \* ticks completed so far
    frozen,     \* dispatcher: the inputs frozen for the running tick, or NoTick
    sched       \* dispatcher: the systems run so far in the running tick, in order

vars == <<pos, vel, ori, character, inputs, ecs_data, delta_time, ticks, frozen, sched>>

-----------------------------------------------------------------------------
(* Bounds of the model *)

MaxTicks == 2

VelLimit == 20000

-----------------------------------------------------------------------------
(* Fixed-point arithmetic *)

SCALE == 10 * 10

Abs(a) == IF a < 0 THEN -a ELSE a

Signum(a) == IF a < 0 THEN -1 ELSE IF a > 0 THEN 1 ELSE 0

Min(a, b) == IF a <= b THEN a ELSE b

\* division rounding toward zero, b > 0
TDiv(a, b) == IF a >= 0 THEN a \div b ELSE -((-a) \div b)

\* product of two fixed-point numbers
Mul(a, b) == TDiv(a * b, SCALE)

RECURSIVE SqrtIter(_, _)
\* Newton's iteration from a guess x >= sqrt(n), n > 0
SqrtIter(n, x) ==
    LET y == (x + n \div x) \div 2
    IN  IF y >= x THEN x ELSE SqrtIter(n, y)

\* floor of the square root of a natural number
ISqrt(n) ==
    IF n = 0 THEN 0
    ELSE SqrtIter(n, IF n < 100 THEN 10
                     ELSE IF n < 10000 THEN 100
                     ELSE IF n < 1000000 THEN 1000
                     ELSE IF n < 100000000 THEN 10000
                     ELSE 46341)

\* square root of a fixed-point number
Sqrt(a) == ISqrt(a * SCALE)

Zero3 == <<0, 0, 0>>

\* Vec3::from(Vec2): z = 0
Vec3From2(v) == <<v[1], v[2], 0>>

\* Vec2::from(Vec3): drops z
Vec2From3(v) == <<v[1], v[2]>>

\* magnitude_squared of a Vec2 or Vec3, in units of 1 / SCALE^2
MagnitudeSquared(v) ==
    IF Len(v) = 2 THEN v[1] * v[1] + v[2] * v[2]
                  ELSE v[1] * v[1] + v[2] * v[2] + v[3] * v[3]

Magnitude(v) == ISqrt(MagnitudeSquared(v))

\* SCALE times the magnitude: two more digits, kept where they fit the integers
MagnitudeFine(v) ==
    IF MagnitudeSquared(v) < 200000
    THEN ISqrt(MagnitudeSquared(v) * SCALE * SCALE)
    ELSE Magnitude(v) * SCALE

\* normalized(): v / |v|; only used on vectors of non-zero magnitude
Normalized(v) ==
    LET m == MagnitudeFine(v)
    IN  IF Len(v) = 2
        THEN <<TDiv(v[1] * SCALE * SCALE, m), TDiv(v[2] * SCALE * SCALE, m)>>
        ELSE <<TDiv(v[1] * SCALE * SCALE, m), TDiv(v[2] * SCALE * SCALE, m),
               TDiv(v[3] * SCALE * SCALE, m)>>

Sub3(a, b) == <<a[1] - b[1], a[2] - b[2], a[3] - b[3]>>

Clamp01(f) == IF f < 0 THEN 0 ELSE IF f > SCALE THEN SCALE ELSE f

\* vek Lerp::lerp of two scalars, factor clamped to [0, 1]
LerpS(from, to, factor) == from + Mul(to - from, Clamp01(factor))

\* vek Lerp::lerp of two Vec3, factor clamped to [0, 1]
Lerp(from, to, factor) ==
    <<LerpS(from[1], to[1], factor),
      LerpS(from[2], to[2], factor),
      LerpS(from[3], to[3], factor)>>

\* vek Slerp::slerp of two Vec3, factor clamped to [0, 1]: the direction moves
\* from `from` towards `to`, the magnitude is interpolated linearly.  The
\* arc is approximated by the normalised chord (no trigonometry in fixed
\* point); factor 0 gives `from`, factor 1 gives `to`.
Slerp(from, to, factor) ==
    LET f   == Clamp01(factor)
        nf  == Normalized(from)
        nt  == Normalized(to)
        mid == Lerp(nf, nt, f)
        mag == LerpS(Magnitude(from), Magnitude(to), f)
    IN  IF f = 0 THEN from
        ELSE IF f = SCALE THEN to
        ELSE IF Magnitude(mid) = 0 THEN from
        ELSE LET d == Normalized(mid)
             IN  <<Mul(d[1], mag), Mul(d[2], mag), Mul(d[3], mag)>>

-----------------------------------------------------------------------------
(* Program constants.  Their values are set outside the files at hand      *)
(* (states/mod.rs, sys/phys.rs); climb.rs only imports them.               *)

CLIMB_SPEED == 500              \* 5.0

HUMANOID_CLIMB_ACCEL == 500     \* 5.0

HUMANOID_SPEED == 12000         \* 120.0

GRAVITY == 3924                 \* 9.81 * 4.0

\* the literals of climb.rs
WALL_DIR_EPS == 10              \* 0.001, line 33

ORI_DIR_EPS == 1                \* 0.0001, line 42

ORI_DIST_EPS == 10              \* 0.001, line 44

-----------------------------------------------------------------------------
(* Input: the state of one button.  The type lives in comp/controller.rs;  *)
(* a button is released, pressed on this tick, or held since an earlier    *)
(* tick.                                                                   *)

InputStates == {"released", "just_pressed", "held"}

\* Input::is_pressed: the button is down, whether pressed on this tick or held
is_pressed(i) == i # "released"

\* Input::is_just_pressed: the button went down on this tick
is_just_pressed(i) == i = "just_pressed"

\* the button's state on the next tick, from its raw level
InputTick(i, down) ==
    IF ~down THEN "released"
    ELSE IF is_pressed(i) THEN "held" ELSE "just_pressed"

NoWall == <<>>      \* physics.on_wall = None; Some(wall_dir) is the Vec3

-----------------------------------------------------------------------------
(* ClimbHandler::handle, block by block.  `data` is the ECSStateData:      *)
(* [pos, vel, ori, character, inputs, physics, dt].                        *)

\* lines 22-29: move player according to move_dir
MoveVel(data) ==
    LET accel == IF MagnitudeSquared(data.vel) < HUMANOID_SPEED * HUMANOID_SPEED
                 THEN HUMANOID_CLIMB_ACCEL ELSE 0
        d     == data.inputs.move_dir
    IN  <<data.vel[1] + Mul(Mul(data.dt, d[1]), accel),
          data.vel[2] + Mul(Mul(data.dt, d[2]), accel),
          data.vel[3]>>

\* lines 32-40: the direction to turn to (a Vec2)
OriDir(data, v) ==
    IF data.physics.on_wall # NoWall
    THEN IF MagnitudeSquared(Vec2From3(data.physics.on_wall)) > WALL_DIR_EPS
         THEN Normalized(Vec2From3(data.physics.on_wall))
         ELSE Vec2From3(v)
    ELSE Vec2From3(v)

\* lines 42-44: whether the orientation is turned
OriTurnsEitherAs(o, ori_dir) ==
    \/ MagnitudeSquared(ori_dir) > ORI_DIR_EPS
    \/ /\ MagnitudeSquared(ori_dir) > 0
       /\ MagnitudeSquared(Sub3(Normalized(o), Normalized(Vec3From2(ori_dir))))
              > ORI_DIST_EPS

OriTurns(o, ori_dir) ==
    /\ MagnitudeSquared(ori_dir) > ORI_DIR_EPS
    /\ MagnitudeSquared(Sub3(Normalized(o), Normalized(Vec3From2(ori_dir))))
           > ORI_DIST_EPS

\* lines 42-51: the new orientation
NewOri(data, v) ==
    LET ori_dir == OriDir(data, v)
    IN  IF OriTurns(data.ori, ori_dir)
        THEN Slerp(data.ori, Vec3From2(ori_dir),
                   Mul(IF data.physics.on_ground THEN 9 * SCALE ELSE 2 * SCALE,
                       data.dt))
        ELSE data.ori

\* line 61: |e|^1.5 * signum(e) * 6.0
DragTerm(e) == Mul(Abs(e), Sqrt(Abs(e))) * Signum(e) * 6

\* lines 60-61: climbing down, power-law drag on every axis
ClimbDownVel(dt, v) ==
    <<v[1] - Mul(dt, DragTerm(v[1])),
      v[2] - Mul(dt, DragTerm(v[2])),
      v[3] - Mul(dt, DragTerm(v[3]))>>

\* line 64: climbing up, counter-force capped at CLIMB_SPEED
ClimbUpNoCapAs(dt, v) ==
    <<v[1], v[2], v[3] + Mul(Mul(dt, GRAVITY), 125)>>

ClimbUpVel(dt, v) ==
    <<v[1], v[2], Min(v[3] + Mul(Mul(dt, GRAVITY), 125), CLIMB_SPEED)>>

\* lines 66-71: gravity term, then interpolation of the velocity towards zero
SlideVel(dt, v) ==
    LET z == v[3] + Mul(Mul(dt, GRAVITY), 150)
        f == TDiv(30 * dt * SCALE, SCALE - Min(z, 0) * 5)
    IN  Lerp(<<v[1], v[2], z>>, Zero3, f)

\* lines 54-58: whether the vertical climbing movement applies
ClimbApplies(data, v) ==
    /\ is_pressed(data.inputs.climb) \/ is_pressed(data.inputs.climb_down)
    /\ v[3] <= CLIMB_SPEED
    /\ data.physics.on_wall # NoWall

\* lines 53-73: apply vertical climbing movement
ClimbVelSwappedAs(data, v) ==
    IF ClimbApplies(data, v)
    THEN IF is_pressed(data.inputs.climb_down) /\ ~is_pressed(data.inputs.climb)
         THEN ClimbUpVel(data.dt, v)
         ELSE IF is_pressed(data.inputs.climb) /\ ~is_pressed(data.inputs.climb_down)
         THEN ClimbDownVel(data.dt, v)
         ELSE SlideVel(data.dt, v)
    ELSE v

ClimbVel(data, v) ==
    IF ClimbApplies(data, v)
    THEN IF is_pressed(data.inputs.climb_down) /\ ~is_pressed(data.inputs.climb)
         THEN ClimbDownVel(data.dt, v)
         ELSE IF is_pressed(data.inputs.climb) /\ ~is_pressed(data.inputs.climb_down)
         THEN ClimbUpVel(data.dt, v)
         ELSE SlideVel(data.dt, v)
    ELSE v

\* lines 75-98: the CharacterState returned
NextCharacterSwappedAs(data) ==
    IF data.physics.on_wall = NoWall
    THEN IF ~is_pressed(data.inputs.jump)
         THEN [action_state |-> "Idle", move_state |-> "Jump"]
         ELSE [action_state |-> "Idle", move_state |-> "Fall"]
    ELSE IF data.physics.on_ground
    THEN [action_state |-> "Idle", move_state |-> "Stand"]
    ELSE data.character

NextCharacterGroundFirstAs(data) ==
    IF data.physics.on_ground
    THEN [action_state |-> "Idle", move_state |-> "Stand"]
    ELSE IF data.physics.on_wall = NoWall
    THEN IF is_pressed(data.inputs.jump)
         THEN [action_state |-> "Idle", move_state |-> "Jump"]
         ELSE [action_state |-> "Idle", move_state |-> "Fall"]
    ELSE data.character

NextCharacterNoStandAs(data) ==
    IF data.physics.on_wall = NoWall
    THEN IF is_pressed(data.inputs.jump)
         THEN [action_state |-> "Idle", move_state |-> "Jump"]
         ELSE [action_state |-> "Idle", move_state |-> "Fall"]
    ELSE data.character

NextCharacterKeepActionAs(data) ==
    IF data.physics.on_wall = NoWall
    THEN IF is_pressed(data.inputs.jump)
         THEN [action_state |-> data.character.action_state, move_state |-> "Jump"]
         ELSE [action_state |-> data.character.action_state, move_state |-> "Fall"]
    ELSE IF data.physics.on_ground
    THEN [action_state |-> data.character.action_state, move_state |-> "Stand"]
    ELSE data.character

NextCharacter(data) ==
    IF data.physics.on_wall = NoWall
    THEN IF is_pressed(data.inputs.jump)
         THEN [action_state |-> "Idle", move_state |-> "Jump"]
         ELSE [action_state |-> "Idle", move_state |-> "Fall"]
    ELSE IF data.physics.on_ground
    THEN [action_state |-> "Idle", move_state |-> "Stand"]
    ELSE data.character

\* lines 14-99: the ECSStateUpdate returned
handle(data) ==
    LET v == MoveVel(data)
    IN  [pos       |-> data.pos,
         vel       |-> ClimbVel(data, v),
         ori       |-> NewOri(data, v),
         character |-> NextCharacter(data)]

-----------------------------------------------------------------------------
(* The entity and the values a tick draws its inputs from *)

\* The entities followed, each [vel, ori, action_state] on entering Climb:
\* at rest; falling; rising just below and well above CLIMB_SPEED; moving
\* sideways; at HUMANOID_SPEED; creeping; moving the way it faces; falling at
\* HUMANOID_SPEED with no horizontal speed.
Entities ==
    {[vel |-> <<0, 0, 0>>,      ori |-> <<0, 100, 0>>, action_state |-> "Idle"],
     [vel |-> <<0, 0, -500>>,   ori |-> <<100, 0, 0>>, action_state |-> "Attack"],
     [vel |-> <<0, 0, 450>>,    ori |-> <<2, 100, 0>>, action_state |-> "Idle"],
     [vel |-> <<0, 0, 1000>>,   ori |-> <<0, 100, 0>>, action_state |-> "Attack"],
     [vel |-> <<300, 0, -100>>, ori |-> <<0, 100, 0>>, action_state |-> "Idle"],
     [vel |-> <<12000, 0, 0>>,  ori |-> <<100, 0, 0>>, action_state |-> "Idle"],
     [vel |-> <<1, 0, 0>>,      ori |-> <<0, 100, 0>>, action_state |-> "Block"],
     [vel |-> <<300, 6, 0>>,    ori |-> <<100, 0, 0>>, action_state |-> "Idle"],
     [vel |-> <<0, 0, -12000>>, ori |-> <<0, 100, 0>>, action_state |-> "Idle"]}

MoveDirs == {<<0, 0>>, <<100, 0>>}

Dts == {2, 10}          \* 0.02 s and 0.1 s

\* no wall, a wall to the north, a wall direction too short to turn to
Walls == {NoWall, <<0, 100, 0>>, <<0, 3, 0>>}

NoCall == <<>>

\* the model follows an entity while its vectors stay within the range the
\* fixed-point arithmetic can square
Representable(v) == \A i \in 1..3 : Abs(v[i]) <= VelLimit

NoTick == <<>>

\* the ControllerInputs of a tick, from the raw levels of the buttons
ResolveInputs(prev, md, jump, climb, climb_down) ==
    [move_dir   |-> md,
     jump       |-> InputTick(prev.jump, jump),
     climb      |-> InputTick(prev.climb, climb),
     climb_down |-> InputTick(prev.climb_down, climb_down)]

ECSStateData(in, physics) ==
    [pos |-> pos, vel |-> vel, ori |-> ori, character |-> character,
     inputs |-> in, physics |-> physics, dt |-> delta_time]

Init ==
    /\ pos = Zero3
    /\ \E e \in Entities :
          /\ vel = e.vel
          /\ ori = e.ori
          /\ character = [move_state |-> "Climb", action_state |-> e.action_state]
    /\ \E md \in MoveDirs :
          inputs = [move_dir |-> md, jump |-> "released",
                    climb |-> "released", climb_down |-> "released"]
    /\ ecs_data = NoCall
    /\ delta_time \in Dts
    /\ ticks = 0
    /\ frozen = NoTick
    /\ sched = <<>>

\* one tick of an entity in Climb: the movement system calls handle on it and
\* writes the update back
Tick ==
    /\ ticks < MaxTicks
    /\ character.move_state = "Climb"
    /\ \E wall \in Walls, ground \in BOOLEAN,
          j \in BOOLEAN, c \in BOOLEAN, cd \in BOOLEAN :
          LET in   == ResolveInputs(inputs, inputs.move_dir, j, c, cd)
              data == ECSStateData(in, [on_ground |-> ground, on_wall |-> wall])
          IN  \E update \in {handle(data)} :
                  /\ Representable(update.vel)
                  /\ Representable(update.ori)
                  /\ pos' = update.pos
                  /\ vel' = update.vel
                  /\ ori' = update.ori
                  /\ character' = update.character
                  /\ inputs' = in
                  /\ ecs_data' = <<data>>
    /\ ticks' = ticks + 1
    /\ UNCHANGED <<delta_time, frozen, sched>>

Next == Tick

Spec == Init /\ [][Next]_vars

-----------------------------------------------------------------------------
(* The dispatcher: add_local_systems registers four systems, each with the *)
(* list of systems it depends on.  Within a tick every system runs once; a *)
(* system may run as soon as the systems it depends on have run.  A run is *)
(* atomic: the dispatcher never runs two systems that touch the same       *)
(* component at the same time.                                             *)

AGENT_SYS == "agent_sys"

CONTROL_SYS == "control_sys"

MOVEMENT_SYS == "movement_sys"

ACTION_STATE_SYS == "action_state_sys"

\* the registrations, in the order of the calls of dispatch_builder.add
add_local_systems ==
    <<[system |-> "agent::Sys",        name |-> AGENT_SYS,        dep |-> {}],
      [system |-> "control::Sys",      name |-> CONTROL_SYS,      dep |-> {}],
      [system |-> "phys::Sys",         name |-> MOVEMENT_SYS,     dep |-> {}],
      [system |-> "action_state::Sys", name |-> ACTION_STATE_SYS, dep |-> {}]>>

Systems == {add_local_systems[i].name : i \in DOMAIN add_local_systems}

Dependencies(s) ==
    UNION {add_local_systems[i].dep :
               i \in {k \in DOMAIN add_local_systems : add_local_systems[k].name = s}}

Ran == {sched[i] : i \in DOMAIN sched}

\* the dispatcher may run s now
Runnable(s) ==
    /\ frozen # NoTick
    /\ s \in Systems \ Ran
    /\ Dependencies(s) \subseteq Ran

\* the tick starts: the raw button levels, the physics facts of the previous
\* tick and the entity as it stands are frozen
BeginTick ==
    /\ frozen = NoTick
    /\ ticks < MaxTicks
    /\ character.move_state = "Climb"
    /\ \E wall \in Walls, ground \in BOOLEAN,
          j \in BOOLEAN, c \in BOOLEAN, cd \in BOOLEAN :
          frozen' = <<[jump |-> j, climb |-> c, climb_down |-> cd,
                       physics |-> [on_ground |-> ground, on_wall |-> wall],
                       pos |-> pos, vel |-> vel, ori |-> ori,
                       character |-> character, inputs |-> inputs]>>
    /\ sched' = <<>>
    /\ UNCHANGED <<pos, vel, ori, character, inputs, ecs_data, delta_time, ticks>>

\* agent::Sys drives the entities that have an Agent; the entity followed is
\* a player's, which it leaves alone
AgentSys ==
    /\ Runnable(AGENT_SYS)
    /\ sched' = Append(sched, AGENT_SYS)
    /\ UNCHANGED <<pos, vel, ori, character, inputs, ecs_data, delta_time, ticks, frozen>>

\* control::Sys resolves the tick's control command into the ControllerInputs
ControlSys ==
    /\ Runnable(CONTROL_SYS)
    /\ inputs' = ResolveInputs(inputs, inputs.move_dir,
                               frozen[1].jump, frozen[1].climb, frozen[1].climb_down)
    /\ sched' = Append(sched, CONTROL_SYS)
    /\ UNCHANGED <<pos, vel, ori, character, ecs_data, delta_time, ticks, frozen>>

\* the system registered as movement_sys runs the state handler of the
\* entity's move state on the ControllerInputs it finds
MovementSys ==
    /\ Runnable(MOVEMENT_SYS)
    /\ LET data == ECSStateData(inputs, frozen[1].physics)
       IN  \E update \in {handle(data)} :
               /\ pos' = update.pos
               /\ vel' = update.vel
               /\ ori' = update.ori
               /\ character' = update.character
               /\ ecs_data' = <<data>>
    /\ sched' = Append(sched, MOVEMENT_SYS)
    /\ UNCHANGED <<inputs, delta_time, ticks, frozen>>

\* action_state::Sys advances the action state; none of the entity's actions
\* is under way or requested, so it leaves the entity as it is
ActionStateSys ==
    /\ Runnable(ACTION_STATE_SYS)
    /\ sched' = Append(sched, ACTION_STATE_SYS)
    /\ UNCHANGED <<pos, vel, ori, character, inputs, ecs_data, delta_time, ticks, frozen>>

\* every system has run: the tick is over
EndTick ==
    /\ frozen # NoTick
    /\ Ran = Systems
    /\ Representable(vel)
    /\ Representable(ori)
    /\ frozen' = NoTick
    /\ sched' = <<>>
    /\ ticks' = ticks + 1
    /\ UNCHANGED <<pos, vel, ori, character, inputs, ecs_data, delta_time>>

DispatchNext ==
    \/ BeginTick
    \/ AgentSys
    \/ ControlSys
    \/ MovementSys
    \/ ActionStateSys
    \/ EndTick

\* the dispatcher is followed at one tick length and with the stick at rest
DispatchInit ==
    /\ Init
    /\ delta_time = 2
    /\ inputs.move_dir = <<0, 0>>

DispatchSpec == DispatchInit /\ [][DispatchNext]_vars

-----------------------------------------------------------------------------
(* Properties.  Under Spec the entity after a tick is the ECSStateUpdate   *)
(* that handle returned for LastData, the ECSStateData of that tick.       *)

Called == ecs_data # NoCall

LastData == ecs_data[1]

OnWall == LastData.physics.on_wall # NoWall

OnGround == LastData.physics.on_ground

MoveStateChanged == character.move_state # LastData.character.move_state

MoveStates == {"Stand", "Fall", "Jump", "Climb"}

\* C1: with physics.on_wall = None the returned move_state is decided on that
\* call: Jump when jump is pressed, Fall when it is not, whatever on_ground,
\* climb, climb_down, move_dir, the velocity and dt are.
C1_NoWallJumpOrFall ==
    (Called /\ ~OnWall) =>
        character.move_state =
            IF is_pressed(LastData.inputs.jump) THEN "Jump" ELSE "Fall"

\* a tick without wall contact, on the ground, climb held, jump down: Jump
C1_Witness ==
    /\ Called /\ ~OnWall /\ OnGround
    /\ is_pressed(LastData.inputs.jump)
    /\ is_pressed(LastData.inputs.climb)
    /\ LastData.vel[3] < 0
    /\ character.move_state = "Jump"

\* C3 as claimed: without wall contact the handler returns Jump only on the
\* tick on which jump has just become pressed, and Fall while jump is merely
\* held from an earlier tick.
C3_JumpOnlyOnPressEdge ==
    (Called /\ ~OnWall) =>
        character.move_state =
            IF is_just_pressed(LastData.inputs.jump) THEN "Jump" ELSE "Fall"

\* C4: with physics.on_wall = None and physics.on_ground = true the returned
\* move_state is Jump or Fall, never Stand.
C4_WallLossBeforeGround ==
    (Called /\ ~OnWall /\ OnGround) =>
        /\ character.move_state \in {"Jump", "Fall"}
        /\ character.move_state # "Stand"

\* a tick without wall contact on the ground, jump up: Fall, not Stand
C4_Witness ==
    /\ Called /\ ~OnWall /\ OnGround
    /\ ~is_pressed(LastData.inputs.jump)
    /\ character.move_state = "Fall"

\* C5: with wall contact, on the ground the returned move_state is Stand, and
\* off the ground the returned CharacterState is the input CharacterState; so
\* an entity leaves Climb only on a tick with on_wall = None or on_ground, and
\* every combination of flags yields one defined CharacterState.
C5_WallContactStandOrStay ==
    Called =>
        /\ (OnWall /\ OnGround) => character.move_state = "Stand"
        /\ (OnWall /\ ~OnGround) => character = LastData.character
        /\ (LastData.character.move_state = "Climb" /\ character.move_state # "Climb")
               => (~OnWall \/ OnGround)
        /\ character \in [move_state : MoveStates, action_state : {"Idle", "Attack", "Block"}]

\* the second tick in a row on the wall and off the ground: still in Climb, the
\* action state kept
C5_Witness ==
    /\ Called /\ OnWall /\ ~OnGround
    /\ ticks = 2
    /\ character = [move_state |-> "Climb", action_state |-> "Attack"]

\* C6 as claimed: with climb pressed and climb_down not pressed, vel.z never
\* decreases over a tick and never exceeds CLIMB_SPEED after a tick.  Stated
\* for the ticks through which the entity stays in Climb (on the wall, off the
\* ground).
C6_ClimbUpNeverAboveClimbSpeed ==
    (/\ Called
     /\ LastData.character.move_state = "Climb"
     /\ OnWall /\ ~OnGround
     /\ is_pressed(LastData.inputs.climb)
     /\ ~is_pressed(LastData.inputs.climb_down)) =>
        /\ vel[3] >= LastData.vel[3]
        /\ vel[3] <= CLIMB_SPEED

\* C6 as amended: with climb pressed and climb_down not pressed, vel.z never
\* decreases over a tick; it does not exceed CLIMB_SPEED after a tick that it
\* entered at or below CLIMB_SPEED, and a vel.z above CLIMB_SPEED is left as
\* it is.
C6_ClimbUpCappedFromBelow ==
    (/\ Called
     /\ LastData.character.move_state = "Climb"
     /\ is_pressed(LastData.inputs.climb)
     /\ ~is_pressed(LastData.inputs.climb_down)) =>
        /\ vel[3] >= LastData.vel[3]
        /\ LastData.vel[3] <= CLIMB_SPEED => vel[3] <= CLIMB_SPEED
        /\ LastData.vel[3] > CLIMB_SPEED => vel[3] = LastData.vel[3]

\* climbing up on the wall for the second tick, the cap reached from below
C6_Witness ==
    /\ Called /\ OnWall
    /\ ticks = 2
    /\ is_pressed(LastData.inputs.climb)
    /\ ~is_pressed(LastData.inputs.climb_down)
    /\ LastData.vel[3] < CLIMB_SPEED
    /\ LastData.vel[3] > 0
    /\ vel[3] = CLIMB_SPEED

AcceleratedVel == MoveVel(LastData)

ClimbHeld == is_pressed(LastData.inputs.climb)

ClimbDownHeld == is_pressed(LastData.inputs.climb_down)

TargetDir ==
    IF OnWall /\ MagnitudeSquared(Vec2From3(LastData.physics.on_wall)) > WALL_DIR_EPS
    THEN Normalized(Vec2From3(LastData.physics.on_wall))
    ELSE Vec2From3(AcceleratedVel)

TargetNearZero == MagnitudeSquared(TargetDir) <= ORI_DIR_EPS

TargetNearOri ==
    MagnitudeSquared(Sub3(Normalized(LastData.ori),
                          Normalized(Vec3From2(TargetDir)))) <= ORI_DIST_EPS

\* C10: the returned ori is the input ori whenever the target direction has
\* squared magnitude <= 0.0001 or lies within squared distance 0.001 of the
\* current orientation (both normalized); the orientation changes only when
\* both thresholds are strictly exceeded.
C10_OriKeptBelowThresholds ==
    Called =>
        /\ (TargetNearZero \/ TargetNearOri) => ori = LastData.ori
        /\ ori # LastData.ori => (~TargetNearZero /\ ~TargetNearOri)

\* the entity faces almost, not exactly, along the wall direction, on the
\* ground: the orientation is kept
C10_Witness ==
    /\ Called /\ OnWall /\ OnGround
    /\ ~TargetNearZero
    /\ TargetNearOri
    /\ Normalized(LastData.ori) # Normalized(Vec3From2(TargetDir))
    /\ ori = LastData.ori

\* the phase of the tick a system belongs to: control/agent resolution, then
\* movement and physics integration (both phys::Sys, registered as
\* movement_sys), then action-state resolution
Phase(s) ==
    IF s \in {AGENT_SYS, CONTROL_SYS} THEN 1
    ELSE IF s = MOVEMENT_SYS THEN 2
    ELSE 3

\* C2 as claimed: in every tick, under every schedule the declared
\* dependencies allow, no system of a later phase runs before every system of
\* the earlier phases has run, and no system runs twice in a tick.
C2_PhasesInOrder ==
    /\ \A i \in DOMAIN sched : \A s \in Systems :
           Phase(s) < Phase(sched[i]) => \E k \in 1..(i - 1) : sched[k] = s
    /\ \A i, k \in DOMAIN sched : sched[i] = sched[k] => i = k

\* the output of the tick when its systems run in the order of their phases:
\* the handler reads the ControllerInputs resolved from this tick's command
TickOutput(f) ==
    handle([pos |-> f.pos, vel |-> f.vel, ori |-> f.ori, character |-> f.character,
            inputs |-> ResolveInputs(f.inputs, f.inputs.move_dir,
                                     f.jump, f.climb, f.climb_down),
            physics |-> f.physics, dt |-> delta_time])

\* C8 as claimed: the output of a tick (pos, vel, ori, character) is fixed by
\* its frozen inputs, whichever schedule the dispatcher picks: it is the
\* output of the schedule that follows the phases.
C8_TickOutputFixedByInputs ==
    (frozen # NoTick /\ Ran = Systems) =>
        [pos |-> pos, vel |-> vel, ori |-> ori, character |-> character]
            = TickOutput(frozen[1])

\* the squared horizontal speed of the last call: x and y only
HorizontalSpeedSquared == MagnitudeSquared(Vec2From3(LastData.vel))

\* dt * move_dir * accel, as a Vec3
HorizontalAcceleration ==
    <<Mul(Mul(LastData.dt, LastData.inputs.move_dir[1]), HUMANOID_CLIMB_ACCEL),
      Mul(Mul(LastData.dt, LastData.inputs.move_dir[2]), HUMANOID_CLIMB_ACCEL),
      0>>

\* C11 as claimed: dt * move_dir * accel is added to the velocity exactly when
\* the squared horizontal speed (x and y only, whatever vel.z is) is below the
\* cap; at or above the cap move_dir adds nothing, and the velocity is never
\* clamped down to the cap.  The cap is read as the one the handler compares
\* with, HUMANOID_SPEED.
C11_AccelByHorizontalSpeed ==
    Called =>
        AcceleratedVel =
            IF HorizontalSpeedSquared < HUMANOID_SPEED * HUMANOID_SPEED
            THEN <<LastData.vel[1] + HorizontalAcceleration[1],
                   LastData.vel[2] + HorizontalAcceleration[2],
                   LastData.vel[3]>>
            ELSE LastData.vel

=============================================================================
